---- MODULE Spec2Model ----
(***************************************************************************)
(* Model of the CEL admission filter                                       *)
(* (staging/src/k8s.io/apiserver/pkg/admission/plugin/cel/filter.go):      *)
(* Compile / NewFilter build a filter, ForInput evaluates every compiled   *)
(* expression against one admission request, CompilationErrors lists the   *)
(* compile errors.  ForInput is modelled step by step for each caller, so  *)
(* that calls on the same filter interleave.                               *)
(***************************************************************************)
EXTENDS Integers, Sequences, FiniteSets, TLC

\* ---- bounds ----
MaxExprs == 2      \* longest expression list handed to Compile / NewFilter
MaxElapsed == 1    \* largest duration time.Since may report

Callers == {"c1", "c2"}
Durations == 0..MaxElapsed

\* ---- state ----
VARIABLES
  built,                \* "none", "Compile" or "NewFilter": how the filter was made
  compileArgs,          \* the arguments Compile was called with
  filter,               \* the filter (or the nil Filter Compile returns)
  reportedErrors,       \* what the last CompilationErrors call returned
  pc,                   \* per caller: position inside ForInput
  in,                   \* per caller: arguments of the running ForInput call
  va,                   \* per caller: the call's evaluationActivation
  evaluations,          \* per caller: the call's result slice
  idx,                  \* per caller: loop index (1-based)
  execs,                \* per caller: Program.Eval calls made, per index
  ret                   \* per caller: what the call returned

vars == <<built, compileArgs, filter, reportedErrors,
          pc, in, va, evaluations, idx, execs, ret>>

callVars == <<pc, in, va, evaluations, idx, execs, ret>>
filterVars == <<built, compileArgs, filter>>

\* ---- Go zero values ----
Nil == "nil"                 \* nil interface{} / nil runtime.Object
NilPtr == "nilptr"           \* typed nil pointer stored in an interface
NilMap == "nilmap"           \* map[string]interface{}(nil)
NilProgram == "noprogram"    \* CompilationResult.Program == nil
NilErr == <<>>               \* error(nil)
NilVal == <<>>               \* ref.Val(nil)
NilAccessor == [name |-> "", expression |-> ""]

\* ---- reserved variable names ----
ObjectVarName == "object"
OldObjectVarName == "oldObject"
ParamsVarName == "params"
RequestVarName == "request"
ReservedNames == {ObjectVarName, OldObjectVarName, ParamsVarName, RequestVarName}
Names == ReservedNames \cup {"Object", "self", ""}

\* ---- expressions ----
ExprObject == "object.x"
ExprAll == "[oldObject, params, request]"
ExprBogus == "bogus("
Accessors ==
  { [name |-> "a1", expression |-> ExprObject],
    [name |-> "a2", expression |-> ExprAll],
    [name |-> "a3", expression |-> ExprBogus] }

GetExpression(a) == a.expression

ProgramFor(expr) == IF expr = ExprObject THEN "prog(object.x)" ELSE "prog([oldObject, params, request])"

\* The expression compiler: a program or a compile error for one expression.
CompileCELExpression(a, hasParam) ==
  IF GetExpression(a) = ExprBogus
  THEN [ExpressionAccessor |-> a, Program |-> NilProgram,
        Error |-> <<"syntax error", GetExpression(a)>>]
  ELSE IF GetExpression(a) = ExprAll /\ ~hasParam
  THEN [ExpressionAccessor |-> a, Program |-> NilProgram,
        Error |-> <<"undeclared reference to 'params'", GetExpression(a)>>]
  ELSE [ExpressionAccessor |-> a, Program |-> ProgramFor(GetExpression(a)),
        Error |-> NilErr]

\* ---- evaluationActivation (variant: object and oldObject answer for each other) ----
ResolveNameSwapped(a, name) ==
  CASE name = ObjectVarName -> [val |-> a.oldObject, found |-> TRUE]
    [] name = OldObjectVarName -> [val |-> a.object, found |-> TRUE]
    [] name = ParamsVarName -> [val |-> a.params, found |-> TRUE]
    [] name = RequestVarName -> [val |-> a.request, found |-> TRUE]
    [] OTHER -> [val |-> Nil, found |-> FALSE]

\* ResolveName: the four reserved names, anything else is not found.
ResolveName(a, name) ==
  CASE name = ObjectVarName -> [val |-> a.object, found |-> TRUE]
    [] name = OldObjectVarName -> [val |-> a.oldObject, found |-> TRUE]
    [] name = ParamsVarName -> [val |-> a.params, found |-> TRUE]
    [] name = RequestVarName -> [val |-> a.request, found |-> TRUE]
    [] OTHER -> [val |-> Nil, found |-> FALSE]

Parent(a) == Nil

\* Program.Eval: runs a compiled program against an activation.  A failed
\* evaluation returns the error value next to the error.
Eval(program, a) ==
  IF program = ProgramFor(ExprObject)
  THEN LET o == ResolveName(a, ObjectVarName)
       IN  IF ~o.found THEN [val |-> <<"Err">>, err |-> <<"undeclared reference", "object">>]
           ELSE IF o.val = Nil THEN [val |-> <<"Err">>, err |-> <<"no such key", "x">>]
           ELSE [val |-> <<"x", o.val>>, err |-> NilErr]
  ELSE LET old == ResolveName(a, OldObjectVarName)
           p == ResolveName(a, ParamsVarName)
           r == ResolveName(a, RequestVarName)
       IN  IF ~(old.found /\ p.found /\ r.found)
           THEN [val |-> <<"Err">>, err |-> <<"undeclared reference">>]
           ELSE [val |-> <<"list", old.val, p.val, r.val>>, err |-> NilErr]

\* ---- Compile ----
\* Variant: compilation stops at the first expression that fails.
RECURSIVE CompileLoopStopAtError(_, _, _)
CompileLoopStopAtError(expressionAccessors, hasParam, i) ==
  IF i > Len(expressionAccessors) THEN <<>>
  ELSE LET r == CompileCELExpression(expressionAccessors[i], hasParam)
       IN  IF r.Error # NilErr THEN <<r>>
           ELSE <<r>> \o CompileLoopStopAtError(expressionAccessors, hasParam, i + 1)

\* Lines 76-79: one compilation result per expression, in order.
RECURSIVE CompileLoop(_, _, _)
CompileLoop(expressionAccessors, hasParam, i) ==
  IF i > Len(expressionAccessors) THEN <<>>
  ELSE <<CompileCELExpression(expressionAccessors[i], hasParam)>>
         \o CompileLoop(expressionAccessors, hasParam, i + 1)

NewFilter(compilationResults) ==
  [isNil |-> FALSE, compilationResults |-> compilationResults]

NoFilter == [isNil |-> TRUE, compilationResults |-> <<>>]

Compile(expressionAccessors, hasParam) ==
  IF Len(expressionAccessors) = 0 THEN NoFilter
  ELSE NewFilter(CompileLoop(expressionAccessors, hasParam, 1))

\* ---- input conversion ----
Objects == {Nil, NilPtr, "pod", "unrepresentable"}
Requests == {NilPtr, "admissionRequest", "unrepresentable"}

IsNilObject(obj) == obj = Nil \/ obj = NilPtr

ToUnstructured(obj) ==
  IF obj = "unrepresentable"
  THEN [val |-> NilMap, err |-> <<"cannot convert", obj>>]
  ELSE [val |-> IF obj = "pod" THEN "map(pod)" ELSE "map(admissionRequest)",
        err |-> NilErr]

convertObjectToUnstructured(obj) ==
  IF IsNilObject(obj) THEN [isNil |-> FALSE, Object |-> NilMap, err |-> NilErr]
  ELSE LET r == ToUnstructured(obj)
       IN  IF r.err # NilErr THEN [isNil |-> TRUE, Object |-> NilMap, err |-> r.err]
           ELSE [isNil |-> FALSE, Object |-> r.val, err |-> NilErr]

\* Variant: no nil check of its own; a nil object goes through the converter.
objectToResolveValNoNilCheck(r) ==
  LET v == convertObjectToUnstructured(r)
  IN  IF v.err # NilErr THEN [val |-> Nil, err |-> v.err]
      ELSE [val |-> v.Object, err |-> NilErr]

objectToResolveVal(r) ==
  IF IsNilObject(r) THEN [val |-> Nil, err |-> NilErr]
  ELSE LET v == convertObjectToUnstructured(r)
       IN  IF v.err # NilErr THEN [val |-> Nil, err |-> v.err]
           ELSE [val |-> v.Object, err |-> NilErr]

\* ---- ForInput ----
ZeroEvaluation ==
  [ExpressionAccessor |-> NilAccessor, EvalResult |-> NilVal, Error |-> NilErr, Elapsed |-> 0]

MakeEvaluations(n) == [i \in 1..n |-> ZeroEvaluation]

NoActivation == [object |-> Nil, oldObject |-> Nil, params |-> Nil, request |-> Nil]

NoInput == [old |-> Nil, new |-> Nil, params |-> Nil, request |-> NilPtr]

\* Variant: the error of the request conversion is dropped.
ConvertInputsIgnoreRequestError(input) ==
  LET oldObjectVal == objectToResolveVal(input.old)
      objectVal == objectToResolveVal(input.new)
      paramsVal == objectToResolveVal(input.params)
      requestVal == convertObjectToUnstructured(input.request)
  IN  IF oldObjectVal.err # NilErr THEN [err |-> oldObjectVal.err, va |-> NoActivation]
      ELSE IF objectVal.err # NilErr THEN [err |-> objectVal.err, va |-> NoActivation]
      ELSE IF paramsVal.err # NilErr THEN [err |-> paramsVal.err, va |-> NoActivation]
      ELSE [err |-> NilErr,
            va |-> [object |-> objectVal.val, oldObject |-> oldObjectVal.val,
                    params |-> paramsVal.val, request |-> requestVal.Object]]

\* The four conversions at the head of ForInput, in the order the code makes
\* them; the first failure is returned.
ConvertInputs(input) ==
  LET oldObjectVal == objectToResolveVal(input.old)
      objectVal == objectToResolveVal(input.new)
      paramsVal == objectToResolveVal(input.params)
      requestVal == convertObjectToUnstructured(input.request)
  IN  IF oldObjectVal.err # NilErr THEN [err |-> oldObjectVal.err, va |-> NoActivation]
      ELSE IF objectVal.err # NilErr THEN [err |-> objectVal.err, va |-> NoActivation]
      ELSE IF paramsVal.err # NilErr THEN [err |-> paramsVal.err, va |-> NoActivation]
      ELSE IF requestVal.err # NilErr THEN [err |-> requestVal.err, va |-> NoActivation]
      ELSE [err |-> NilErr,
            va |-> [object |-> objectVal.val, oldObject |-> oldObjectVal.val,
                    params |-> paramsVal.val, request |-> requestVal.Object]]

\* Lines 148-149: the slot starts with the expression's accessor.
SlotInit(compilationResult) ==
  [ZeroEvaluation EXCEPT !.ExpressionAccessor = compilationResult.ExpressionAccessor]

\* Line 151: the compile error, wrapped.
CompileErrorSlot(evaluation, compilationResult) ==
  [evaluation EXCEPT !.Error = <<"compilation error: ">> \o compilationResult.Error]

\* Line 155: neither a program nor an error.
MissingProgramSlot(evaluation) ==
  [evaluation EXCEPT !.Error = <<"unexpected internal error compiling expression">>]

\* Variant: the value returned by Eval is stored whether or not it failed.
ExecutedSlotKeepsValue(evaluation, compilationResult, a, elapsed) ==
  LET r == Eval(compilationResult.Program, a)
  IN  IF r.err # NilErr
      THEN [evaluation EXCEPT !.Elapsed = elapsed, !.EvalResult = r.val,
              !.Error = <<"expression resulted in error: ",
                          GetExpression(compilationResult.ExpressionAccessor)>> \o r.err]
      ELSE [evaluation EXCEPT !.Elapsed = elapsed, !.EvalResult = r.val]

\* Lines 158-166: run the program, record elapsed and the value or the error.
ExecutedSlot(evaluation, compilationResult, a, elapsed) ==
  LET r == Eval(compilationResult.Program, a)
  IN  IF r.err # NilErr
      THEN [evaluation EXCEPT !.Elapsed = elapsed,
              !.Error = <<"expression resulted in error: ",
                          GetExpression(compilationResult.ExpressionAccessor)>> \o r.err]
      ELSE [evaluation EXCEPT !.Elapsed = elapsed, !.EvalResult = r.val]

\* Variant: the accessor is stored only once the checks are passed.
LoopBodyAccessorAfterChecks(compilationResult, a, elapsed) ==
  IF compilationResult.Error # NilErr
  THEN [evaluation |-> CompileErrorSlot(ZeroEvaluation, compilationResult), evalCalls |-> 0]
  ELSE IF compilationResult.Program = NilProgram
  THEN [evaluation |-> MissingProgramSlot(ZeroEvaluation), evalCalls |-> 0]
  ELSE [evaluation |-> ExecutedSlot(SlotInit(compilationResult), compilationResult, a, elapsed),
        evalCalls |-> 1]

\* Variant: after a slot of the running call failed, later slots are skipped.
LoopBodySkipAfterError(compilationResult, a, elapsed) ==
  LET evaluation == SlotInit(compilationResult)
      failedBefore ==
        \E c \in Callers :
          /\ pc[c] = "loop"
          /\ \E j \in 1..(idx[c] - 1) : evaluations[c][j].Error # NilErr
  IN  IF failedBefore THEN [evaluation |-> evaluation, evalCalls |-> 0]
      ELSE IF compilationResult.Error # NilErr
      THEN [evaluation |-> CompileErrorSlot(evaluation, compilationResult), evalCalls |-> 0]
      ELSE IF compilationResult.Program = NilProgram
      THEN [evaluation |-> MissingProgramSlot(evaluation), evalCalls |-> 0]
      ELSE [evaluation |-> ExecutedSlot(evaluation, compilationResult, a, elapsed),
            evalCalls |-> 1]

\* Variant: one activation, the first caller's, serves every call.
LoopBodySharedActivation(compilationResult, a, elapsed) ==
  LET evaluation == SlotInit(compilationResult)
  IN  IF compilationResult.Error # NilErr
      THEN [evaluation |-> CompileErrorSlot(evaluation, compilationResult), evalCalls |-> 0]
      ELSE IF compilationResult.Program = NilProgram
      THEN [evaluation |-> MissingProgramSlot(evaluation), evalCalls |-> 0]
      ELSE [evaluation |-> ExecutedSlot(evaluation, compilationResult, va["c1"], elapsed),
            evalCalls |-> 1]

\* Variant: a program that is present is run before the error is looked at.
LoopBodyProgramFirst(compilationResult, a, elapsed) ==
  LET evaluation == SlotInit(compilationResult)
  IN  IF compilationResult.Program # NilProgram
      THEN [evaluation |-> ExecutedSlot(evaluation, compilationResult, a, elapsed),
            evalCalls |-> 1]
      ELSE IF compilationResult.Error # NilErr
      THEN [evaluation |-> CompileErrorSlot(evaluation, compilationResult), evalCalls |-> 0]
      ELSE [evaluation |-> MissingProgramSlot(evaluation), evalCalls |-> 0]

\* One iteration of the evaluation loop: the slot it leaves behind and the
\* number of Program.Eval calls it made.
LoopBody(compilationResult, a, elapsed) ==
  LET evaluation == SlotInit(compilationResult)
  IN  IF compilationResult.Error # NilErr
      THEN [evaluation |-> CompileErrorSlot(evaluation, compilationResult), evalCalls |-> 0]
      ELSE IF compilationResult.Program = NilProgram
      THEN [evaluation |-> MissingProgramSlot(evaluation), evalCalls |-> 0]
      ELSE [evaluation |-> ExecutedSlot(evaluation, compilationResult, a, elapsed),
            evalCalls |-> 1]

\* ---- CompilationErrors ----
\* Variant: the nil check is missing, every stored Error field is appended.
RECURSIVE CompilationErrorsLoopNoCheck(_, _)
CompilationErrorsLoopNoCheck(compilationResults, i) ==
  IF i > Len(compilationResults) THEN <<>>
  ELSE <<compilationResults[i].Error>> \o CompilationErrorsLoopNoCheck(compilationResults, i + 1)

\* Lines 237-243: the non-nil Error fields, in stored order.
RECURSIVE CompilationErrorsLoop(_, _)
CompilationErrorsLoop(compilationResults, i) ==
  IF i > Len(compilationResults) THEN <<>>
  ELSE (IF compilationResults[i].Error # NilErr THEN <<compilationResults[i].Error>> ELSE <<>>)
         \o CompilationErrorsLoop(compilationResults, i + 1)

CompilationErrors(e) == CompilationErrorsLoop(e.compilationResults, 1)

NoReturn == [isNil |-> TRUE, evaluations |-> <<>>, err |-> NilErr]

RECURSIVE SeqsUpTo(_, _)
SeqsUpTo(S, n) ==
  IF n = 0 THEN {<<>>}
  ELSE LET shorter == SeqsUpTo(S, n - 1)
       IN  shorter \cup {Append(s, x) : s \in {t \in shorter : Len(t) = n - 1}, x \in S}

\* Compilation results handed to NewFilter directly; they need not keep the
\* compiler's "program or error" contract.
NewFilterResults ==
  { CompileCELExpression([name |-> "a2", expression |-> ExprAll], TRUE),
    CompileCELExpression([name |-> "a3", expression |-> ExprBogus], TRUE),
    [ExpressionAccessor |-> [name |-> "a1", expression |-> ExprObject],
     Program |-> NilProgram, Error |-> NilErr],
    [ExpressionAccessor |-> [name |-> "a1", expression |-> ExprObject],
     Program |-> ProgramFor(ExprObject), Error |-> <<"type error", ExprObject>>] }

Inputs == [old : Objects, new : Objects, params : Objects, request : Requests]

Init ==
  /\ built = "none"
  /\ compileArgs = [expressionAccessors |-> <<>>, hasParam |-> FALSE]
  /\ filter = NoFilter
  /\ reportedErrors = [called |-> FALSE, errs |-> <<>>]
  /\ pc = [c \in Callers |-> "idle"]
  /\ in = [c \in Callers |-> NoInput]
  /\ va = [c \in Callers |-> NoActivation]
  /\ evaluations = [c \in Callers |-> <<>>]
  /\ idx = [c \in Callers |-> 0]
  /\ execs = [c \in Callers |-> <<>>]
  /\ ret = [c \in Callers |-> NoReturn]

DoCompile(accessors, hp) ==
  /\ built = "none"
  /\ built' = "Compile"
  /\ compileArgs' = [expressionAccessors |-> accessors, hasParam |-> hp]
  /\ filter' = Compile(accessors, hp)
  /\ UNCHANGED <<reportedErrors, callVars>>

DoNewFilter(results) ==
  /\ built = "none"
  /\ built' = "NewFilter"
  /\ filter' = NewFilter(results)
  /\ UNCHANGED <<compileArgs, reportedErrors, callVars>>

DoCompilationErrors ==
  /\ built # "none"
  /\ ~filter.isNil
  /\ reportedErrors' = [called |-> TRUE, errs |-> CompilationErrors(filter)]
  /\ UNCHANGED <<filterVars, callVars>>

\* ForInput entry: the result slice is allocated (line 120).
ForInputCall(c, input) ==
  /\ built # "none"
  /\ ~filter.isNil
  /\ pc[c] = "idle"
  /\ pc' = [pc EXCEPT ![c] = "convert"]
  /\ in' = [in EXCEPT ![c] = input]
  /\ evaluations' = [evaluations EXCEPT ![c] = MakeEvaluations(Len(filter.compilationResults))]
  /\ execs' = [execs EXCEPT ![c] = [i \in 1..Len(filter.compilationResults) |-> 0]]
  /\ idx' = [idx EXCEPT ![c] = 0]
  /\ va' = [va EXCEPT ![c] = NoActivation]
  /\ ret' = [ret EXCEPT ![c] = NoReturn]
  /\ UNCHANGED <<filterVars, reportedErrors>>

\* Lines 123-145: convert the inputs; fail the call or build the activation.
ForInputConvert(c) ==
  /\ pc[c] = "convert"
  /\ LET cv == ConvertInputs(in[c])
     IN  IF cv.err # NilErr
         THEN /\ ret' = [ret EXCEPT ![c] = [isNil |-> TRUE, evaluations |-> <<>>, err |-> cv.err]]
              /\ pc' = [pc EXCEPT ![c] = "done"]
              /\ UNCHANGED <<va, idx>>
         ELSE /\ va' = [va EXCEPT ![c] = cv.va]
              /\ idx' = [idx EXCEPT ![c] = 1]
              /\ pc' = [pc EXCEPT ![c] = "loop"]
              /\ UNCHANGED ret
  /\ UNCHANGED <<filterVars, reportedErrors, in, evaluations, execs>>

\* Lines 147-167: one iteration of the loop.
ForInputLoop(c, elapsed) ==
  /\ pc[c] = "loop"
  /\ idx[c] <= Len(filter.compilationResults)
  /\ LET i == idx[c]
         body == LoopBody(filter.compilationResults[i], va[c], elapsed)
     IN  /\ execs' = [execs EXCEPT ![c][i] = @ + body.evalCalls]
         /\ evaluations' = [evaluations EXCEPT ![c][i] = body.evaluation]
         /\ idx' = [idx EXCEPT ![c] = i + 1]
  /\ UNCHANGED <<filterVars, reportedErrors, pc, in, va, ret>>

\* Line 169: return evaluations, nil.
ForInputReturn(c) ==
  /\ pc[c] = "loop"
  /\ idx[c] > Len(filter.compilationResults)
  /\ ret' = [ret EXCEPT ![c] = [isNil |-> FALSE, evaluations |-> evaluations[c], err |-> NilErr]]
  /\ pc' = [pc EXCEPT ![c] = "done"]
  /\ UNCHANGED <<filterVars, reportedErrors, in, va, evaluations, idx, execs>>

\* The caller drops the result; the call's locals are gone.
ForInputForget(c) ==
  /\ pc[c] = "done"
  /\ pc' = [pc EXCEPT ![c] = "idle"]
  /\ in' = [in EXCEPT ![c] = NoInput]
  /\ va' = [va EXCEPT ![c] = NoActivation]
  /\ evaluations' = [evaluations EXCEPT ![c] = <<>>]
  /\ idx' = [idx EXCEPT ![c] = 0]
  /\ execs' = [execs EXCEPT ![c] = <<>>]
  /\ ret' = [ret EXCEPT ![c] = NoReturn]
  /\ UNCHANGED <<filterVars, reportedErrors>>

\* One caller, every input.
Next ==
  \/ \E accessors \in SeqsUpTo(Accessors, MaxExprs), hp \in BOOLEAN : DoCompile(accessors, hp)
  \/ \E results \in SeqsUpTo(NewFilterResults, MaxExprs) : DoNewFilter(results)
  \/ DoCompilationErrors
  \/ \E input \in Inputs : ForInputCall("c1", input)
  \/ ForInputConvert("c1")
  \/ \E elapsed \in Durations : ForInputLoop("c1", elapsed)
  \/ ForInputReturn("c1")
  \/ ForInputForget("c1")

Spec == Init /\ [][Next]_vars

\* Two callers share the filter; their steps interleave in any order.
ConcInputs ==
  [old : {Nil}, new : {Nil, "pod"}, params : {NilPtr, "pod"},
   request : {"admissionRequest", "unrepresentable"}]

NextConc ==
  \/ \E accessors \in SeqsUpTo(Accessors, MaxExprs), hp \in BOOLEAN : DoCompile(accessors, hp)
  \/ \E results \in SeqsUpTo(NewFilterResults, MaxExprs) : DoNewFilter(results)
  \/ DoCompilationErrors
  \/ \E c \in Callers, input \in ConcInputs : ForInputCall(c, input)
  \/ \E c \in Callers : ForInputConvert(c)
  \/ \E c \in Callers, elapsed \in Durations : ForInputLoop(c, elapsed)
  \/ \E c \in Callers : ForInputReturn(c)
  \/ \E c \in Callers : ForInputForget(c)

SpecConc == Init /\ [][NextConc]_vars

\* ---- properties ----
ReturnedResults(c) == pc[c] = "done" /\ ret[c].err = NilErr
Absent(obj) == obj \in {Nil, NilPtr}
Unconvertible(obj) == ~Absent(obj) /\ ToUnstructured(obj).err # NilErr
ProjectionFails(input) ==
  \/ Unconvertible(input.old)
  \/ Unconvertible(input.new)
  \/ Unconvertible(input.params)
  \/ Unconvertible(input.request)
IsWrappedCompilationError(e) == Len(e) > 0 /\ Head(e) = "compilation error: "
Runnable(cr) == cr.Error = NilErr /\ cr.Program # NilProgram

\* C1: a ForInput call that returns no top-level error returns one slot per
\* expression given to Compile (per compilation result given to NewFilter),
\* and slot i carries the accessor of expression i.
C1_PositionalStability ==
  \A c \in Callers :
    ReturnedResults(c) =>
      /\ ~ret[c].isNil
      /\ Len(ret[c].evaluations) = Len(filter.compilationResults)
      /\ \A i \in 1..Len(filter.compilationResults) :
           ret[c].evaluations[i].ExpressionAccessor
             = filter.compilationResults[i].ExpressionAccessor
      /\ built = "Compile" =>
           /\ Len(ret[c].evaluations) = Len(compileArgs.expressionAccessors)
           /\ \A i \in 1..Len(compileArgs.expressionAccessors) :
                ret[c].evaluations[i].ExpressionAccessor = compileArgs.expressionAccessors[i]

C1_Witness ==
  /\ built = "Compile"
  /\ ReturnedResults("c1")
  /\ Len(compileArgs.expressionAccessors) = 2
  /\ compileArgs.expressionAccessors[1] # compileArgs.expressionAccessors[2]
  /\ ret["c1"].evaluations[1].Error # NilErr
  /\ ret["c1"].evaluations[2].Error = NilErr

\* C2: once the inputs converted, every expression with a program and no
\* compile error is executed exactly once and, when its execution succeeds,
\* its slot holds its own value and no error, whatever the other expressions
\* of the list did.
C2_Isolation ==
  \A c \in Callers :
    /\ pc[c] \in {"loop", "done"} =>
         \A i \in 1..Len(execs[c]) : execs[c][i] <= 1
    /\ ReturnedResults(c) =>
         \A i \in 1..Len(filter.compilationResults) :
           LET cr == filter.compilationResults[i]
           IN  Runnable(cr) =>
                 /\ execs[c][i] = 1
                 /\ Eval(cr.Program, va[c]).err = NilErr =>
                      /\ ret[c].evaluations[i].Error = NilErr
                      /\ ret[c].evaluations[i].EvalResult = Eval(cr.Program, va[c]).val

C2_Witness ==
  /\ ReturnedResults("c1")
  /\ Len(filter.compilationResults) = 2
  /\ \E i, j \in 1..2 :
       /\ i # j
       /\ filter.compilationResults[i].Error # NilErr
       /\ ret["c1"].evaluations[i].Error # NilErr
       /\ execs["c1"][j] = 1
       /\ ret["c1"].evaluations[j].Error = NilErr
       /\ ret["c1"].evaluations[j].EvalResult # NilVal

\* C3: ForInput returns a top-level error exactly when converting the old
\* object, the new object, the parameters or the request fails; it then
\* returns a nil slice and has executed no program.
C3_TopLevelError ==
  \A c \in Callers :
    pc[c] = "done" =>
      /\ (ret[c].err # NilErr) <=> ProjectionFails(in[c])
      /\ ret[c].err # NilErr =>
           /\ ret[c].isNil
           /\ ret[c].evaluations = <<>>
           /\ \A i \in 1..Len(execs[c]) : execs[c][i] = 0
      /\ ret[c].err = NilErr => ~ret[c].isNil

C3_Witness ==
  /\ pc["c1"] = "done"
  /\ ret["c1"].err # NilErr
  /\ Unconvertible(in["c1"].request)
  /\ Len(filter.compilationResults) = 2
  /\ Runnable(filter.compilationResults[1])
  /\ filter.compilationResults[2].Error # NilErr

\* C4: Compile returns the nil filter exactly for the empty list; otherwise
\* the filter holds, in input order, the compilation of every expression
\* with the given hasParam.
C4_Compile ==
  built = "Compile" =>
    /\ filter.isNil <=> Len(compileArgs.expressionAccessors) = 0
    /\ ~filter.isNil =>
         /\ Len(filter.compilationResults) = Len(compileArgs.expressionAccessors)
         /\ \A i \in 1..Len(compileArgs.expressionAccessors) :
              filter.compilationResults[i]
                = CompileCELExpression(compileArgs.expressionAccessors[i], compileArgs.hasParam)

C4_Witness ==
  /\ built = "Compile"
  /\ Len(compileArgs.expressionAccessors) = 2
  /\ filter.compilationResults[1].Error # NilErr
  /\ filter.compilationResults[2].Error = NilErr
  /\ filter.compilationResults[2].Program # NilProgram

\* C5: CompilationErrors returns the stored compile errors in stored order,
\* and the slots of a returned result sequence that hold a wrapped
\* compilation error are exactly the indices with a stored compile error.
StoredErrors(results) ==
  SelectSeq([i \in 1..Len(results) |-> results[i].Error], LAMBDA e : e # NilErr)

C5_CompilationErrors ==
  /\ reportedErrors.called => reportedErrors.errs = StoredErrors(filter.compilationResults)
  /\ \A c \in Callers :
       ReturnedResults(c) =>
         LET wrapped == {i \in 1..Len(ret[c].evaluations) :
                           IsWrappedCompilationError(ret[c].evaluations[i].Error)}
         IN  /\ wrapped = {i \in 1..Len(filter.compilationResults) :
                             filter.compilationResults[i].Error # NilErr}
             /\ reportedErrors.called =>
                  /\ Cardinality(wrapped) = Len(reportedErrors.errs)
                  /\ SelectSeq([i \in 1..Len(ret[c].evaluations) |->
                                  ret[c].evaluations[i].Error],
                               IsWrappedCompilationError)
                       = [k \in 1..Len(reportedErrors.errs) |->
                            <<"compilation error: ">> \o reportedErrors.errs[k]]

C5_Witness ==
  /\ reportedErrors.called
  /\ Len(reportedErrors.errs) = 1
  /\ ReturnedResults("c1")
  /\ Len(filter.compilationResults) = 2
  /\ filter.compilationResults[1].Error = NilErr
  /\ IsWrappedCompilationError(ret["c1"].evaluations[2].Error)

\* C6: the activation of a call resolves the four reserved names as found,
\* with the value converted from the matching input (nil for an absent one),
\* resolves any other name as not found with nil, and has no parent.
ExpectedVal(obj) == IF Absent(obj) THEN Nil ELSE ToUnstructured(obj).val
ExpectedRequestVal(obj) == IF Absent(obj) THEN NilMap ELSE ToUnstructured(obj).val

C6_ResolveName ==
  \A c \in Callers :
    (pc[c] = "loop" \/ ReturnedResults(c)) =>
      /\ ResolveName(va[c], "object") = [val |-> ExpectedVal(in[c].new), found |-> TRUE]
      /\ ResolveName(va[c], "oldObject") = [val |-> ExpectedVal(in[c].old), found |-> TRUE]
      /\ ResolveName(va[c], "params") = [val |-> ExpectedVal(in[c].params), found |-> TRUE]
      /\ ResolveName(va[c], "request") = [val |-> ExpectedRequestVal(in[c].request), found |-> TRUE]
      /\ \A name \in Names \ {"object", "oldObject", "params", "request"} :
           ResolveName(va[c], name) = [val |-> Nil, found |-> FALSE]
      /\ Parent(va[c]) = Nil

C6_Witness ==
  /\ ReturnedResults("c1")
  /\ in["c1"].new = "pod"
  /\ in["c1"].old = Nil
  /\ in["c1"].params = NilPtr
  /\ \E i \in 1..Len(execs["c1"]) : execs["c1"][i] = 1

\* C7: ForInput and CompilationErrors leave the filter as it was built, and
\* every call, however its steps interleave with another caller's, returns
\* the values and error classes it returns when run alone on its inputs
\* (elapsed aside).
AloneActivation(input) ==
  [object |-> ExpectedVal(input.new), oldObject |-> ExpectedVal(input.old),
   params |-> ExpectedVal(input.params), request |-> ExpectedRequestVal(input.request)]

AloneSlot(cr, input) ==
  IF cr.Error # NilErr THEN [class |-> "compile", value |-> NilVal]
  ELSE IF cr.Program = NilProgram THEN [class |-> "internal", value |-> NilVal]
  ELSE LET r == Eval(cr.Program, AloneActivation(input))
       IN  IF r.err # NilErr THEN [class |-> "evaluation", value |-> NilVal]
           ELSE [class |-> "value", value |-> r.val]

ClassOf(evaluation) ==
  [class |-> IF evaluation.Error = NilErr THEN "value"
             ELSE IF Head(evaluation.Error) = "compilation error: " THEN "compile"
             ELSE IF Head(evaluation.Error) = "expression resulted in error: " THEN "evaluation"
             ELSE "internal",
   value |-> evaluation.EvalResult]

AsIfAlone(f, input, r) ==
  IF ProjectionFails(input) THEN r.err # NilErr /\ r.isNil
  ELSE /\ r.err = NilErr
       /\ ~r.isNil
       /\ Len(r.evaluations) = Len(f.compilationResults)
       /\ \A i \in 1..Len(f.compilationResults) :
            ClassOf(r.evaluations[i]) = AloneSlot(f.compilationResults[i], input)

C7_NoSharedState ==
  [][ /\ built # "none" => filter' = filter
      /\ \A c \in Callers : pc'[c] = "done" => AsIfAlone(filter', in'[c], ret'[c]) ]_vars

C7_Witness ==
  /\ ReturnedResults("c1")
  /\ pc["c2"] = "loop"
  /\ idx["c2"] = 2
  /\ in["c1"] # in["c2"]
  /\ Len(filter.compilationResults) = 2
  /\ execs["c1"] = <<1, 1>>
  /\ execs["c2"] = <<1, 0>>
  /\ ClassOf(ret["c1"].evaluations[1]) # ClassOf(evaluations["c2"][1])
  /\ reportedErrors.called

\* C8: an absent (nil) new object, old object or parameters object is no
\* conversion failure: when no supplied input is unconvertible the call
\* returns results, each absent object resolves as found with nil, and every
\* expression with a program and no compile error is executed.
C8_AbsentInputs ==
  \A c \in Callers :
    (pc[c] = "done" /\ ~ProjectionFails(in[c])) =>
      /\ ret[c].err = NilErr
      /\ ~ret[c].isNil
      /\ Absent(in[c].new) => ResolveName(va[c], "object") = [val |-> Nil, found |-> TRUE]
      /\ Absent(in[c].old) => ResolveName(va[c], "oldObject") = [val |-> Nil, found |-> TRUE]
      /\ Absent(in[c].params) => ResolveName(va[c], "params") = [val |-> Nil, found |-> TRUE]
      /\ \A i \in 1..Len(filter.compilationResults) :
           Runnable(filter.compilationResults[i]) => execs[c][i] = 1

C8_Witness ==
  /\ pc["c1"] = "done"
  /\ in["c1"].new = NilPtr
  /\ in["c1"].old = Nil
  /\ in["c1"].params = NilPtr
  /\ ret["c1"].err = NilErr
  /\ Len(filter.compilationResults) = 2
  /\ execs["c1"] = <<1, 1>>

\* C9: every slot of a returned result sequence has either a value or an
\* error, never both and never neither.
C9_TaggedResult ==
  \A c \in Callers :
    ReturnedResults(c) =>
      \A i \in 1..Len(ret[c].evaluations) :
        (ret[c].evaluations[i].EvalResult # NilVal) <=> (ret[c].evaluations[i].Error = NilErr)

C9_Witness ==
  /\ ReturnedResults("c1")
  /\ Len(ret["c1"].evaluations) = 2
  /\ ClassOf(ret["c1"].evaluations[1]) .class = "evaluation"
  /\ ClassOf(ret["c1"].evaluations[2]) .class = "value"

\* C10: a compilation result with a compile error is never executed, even
\* when it also holds a program: its slot holds the wrapped compile error, no
\* value and a zero elapsed; a slot's elapsed is set only when its program
\* was executed.
C10_CompileErrorNotExecuted ==
  \A c \in Callers :
    pc[c] \in {"convert", "loop", "done"} =>
      \A i \in 1..Len(filter.compilationResults) :
        LET cr == filter.compilationResults[i]
        IN  /\ cr.Error # NilErr =>
                 /\ execs[c][i] = 0
                 /\ evaluations[c][i].EvalResult = NilVal
                 /\ evaluations[c][i].Elapsed = 0
                 /\ i < idx[c] =>
                      evaluations[c][i].Error = <<"compilation error: ">> \o cr.Error
            /\ evaluations[c][i].Elapsed # 0 => execs[c][i] = 1
            /\ execs[c][i] = 1 => Runnable(cr) /\ i < idx[c]

C10_Witness ==
  /\ ReturnedResults("c1")
  /\ Len(filter.compilationResults) = 2
  /\ filter.compilationResults[1].Error # NilErr
  /\ filter.compilationResults[1].Program # NilProgram
  /\ ret["c1"].evaluations[1].Elapsed = 0
  /\ ret["c1"].evaluations[2].Elapsed = MaxElapsed
  /\ execs["c1"] = <<0, 1>>
====
